---- MODULE Spec2Model ----
(***************************************************************************)
(* Model of src/main.py (exam-analysis PPT generator).                     *)
(*                                                                         *)
(* Modelled here: the Region Store kept by ImageCropWidget (rectangles,    *)
(* current_question_number, scale_factor), the mouse handlers that append  *)
(* to it, clear_last / clear_all, save_regions_config /                    *)
(* load_regions_config, get_cropped_regions, and the MainWindow handlers   *)
(* that create, replace and drive the widget (load_image,                  *)
(* change_pdf_page, clear_last_rect, clear_all_rects, save_config,         *)
(* load_config), the spreadsheet loader (load_excel), the column           *)
(* classifier and per-question scorer (analyze_questions) and the          *)
(* precondition check and outcome of generate_ppt.                         *)
(*                                                                         *)
(* Conventions                                                             *)
(*  - Python None is "None" for names and <<>> for tuples/objects.         *)
(*  - A QRect is the record [x1, y1, x2, y2] of its inclusive corners, as  *)
(*    Qt stores it: width() = x2 - x1 + 1, right() = x2.                   *)
(*  - A JSON number is held in half units (21 stands for 10.5), so that    *)
(*    Python's int() is a real conversion (truncation toward zero).        *)
(*  - scale_factor is the exact fraction <<num, den>> of                   *)
(*    display_pixmap.width() / original_pixmap.width(); 1.0 is <<1, 1>>.   *)
(*  - last_call is a history variable: the handler that ran last and its   *)
(*    outcome (the message box it showed or the value it returned);        *)
(*    last_file is the configuration file that handler read, if any.       *)
(*  - A spreadsheet cell, and a column label, is the record [t, n, s]: a  *)
(*    text (t = "str", s its characters), a number (t = "num", n its value *)
(*    in tenths) or pandas' missing value NaN (t = "nan").                 *)
(*  - A DataFrame is [columns, rows]: the labels and the rows in order;    *)
(*    pandas keeps the labels of a frame distinct.                         *)
(*  - correct_rate is the exact fraction <<num, den>> in lowest terms.     *)
(*  - paintEvent and mouseMoveEvent only repaint / set end_point, which    *)
(*    mouseReleaseEvent overwrites before reading; they are not modelled.  *)
(***************************************************************************)
EXTENDS Integers, Sequences, FiniteSets, TLC

VARIABLES
    PDF_SUPPORT,              \* module flag, src/main.py:26-32
    exam_image,               \* MainWindow.exam_image: file name or "None"
    is_pdf,                   \* MainWindow.is_pdf
    pdf_total_pages,          \* MainWindow.pdf_total_pages
    current_pdf_page,         \* MainWindow.current_pdf_page
    crop_widget,              \* MainWindow.crop_widget: <<>> or <<image_path, is_pdf, pdf_page>>
    scale_factor,             \* crop_widget.scale_factor as <<num, den>>
    rectangles,               \* crop_widget.rectangles: Seq of [rect, qnum]
    current_question_number,  \* crop_widget.current_question_number
    start_point,              \* crop_widget.start_point: <<>> or <<x, y>>
    is_drawing,               \* crop_widget.is_drawing
    config_json,              \* content of the configuration file written last
    cropped,                  \* value returned by the last get_cropped_regions
    last_call,                \* history: last handler and its outcome
    last_file,                \* history: the file the last handler read, if it was load_config
    excel_grid,               \* the cells of the spreadsheet file the operator picks
    df,                       \* MainWindow.df: <<>> or <<DataFrame>>
    header_row,               \* header_row found by the last load_excel: <<>> or <<i>>
    stats,                    \* value returned by the last analyze_questions
    missing,                  \* the list `missing` of the last generate_ppt
    ppt                       \* pages of the report file written last

vars == <<PDF_SUPPORT, exam_image, is_pdf, pdf_total_pages, current_pdf_page,
          crop_widget, scale_factor, rectangles, current_question_number,
          start_point, is_drawing, config_json, cropped, last_call, last_file,
          excel_grid, df, header_row, stats, missing, ppt>>

window_vars == <<exam_image, is_pdf, pdf_total_pages, current_pdf_page>>
widget_vars == <<crop_widget, scale_factor, rectangles, current_question_number,
                 start_point, is_drawing>>
table_vars == <<excel_grid, df, header_row>>
report_vars == <<stats, missing, ppt>>

-----------------------------------------------------------------------------
(* Bounds of the model *)

\* no rectangle is drawn once the store holds this many Regions
MaxRegions == 2
\* longest record list of an operator-supplied configuration file
MaxFileLen == 2
\* no rectangle is drawn once current_question_number has reached this
MaxCounter == 5
\* no undo is requested once current_question_number has fallen to minus this
MaxDeficit == 1

-----------------------------------------------------------------------------
(* Python / Qt primitives *)

None == <<>>

\* Python int(a / b) for b > 0: truncation toward zero
PyIntDiv(a, b) == IF a >= 0 THEN a \div b ELSE -((-a) \div b)

\* Python int(v) of a JSON number v held in half units
PyInt(h) == PyIntDiv(h, 2)

\* a Python int as a JSON number (json.dump of an int)
JsonOfInt(n) == 2 * n

\* QRect(QPoint topLeft, QPoint bottomRight)
QRectOfPoints(p1, p2) == [x1 |-> p1[1], y1 |-> p1[2], x2 |-> p2[1], y2 |-> p2[2]]

\* QRect(x, y, width, height)
QRectOfXYWH(x, y, w, h) == [x1 |-> x, y1 |-> y, x2 |-> x + w - 1, y2 |-> y + h - 1]

RectX(r) == r.x1
RectY(r) == r.y1
RectWidth(r) == r.x2 - r.x1 + 1
RectHeight(r) == r.y2 - r.y1 + 1
RectRight(r) == r.x2
RectBottom(r) == r.y2

\* QRect::normalized() of Qt 5: corners are swapped only when x2 < x1 - 1
Normalized(r) ==
    LET sx == r.x2 < r.x1 - 1
        sy == r.y2 < r.y1 - 1
    IN [x1 |-> IF sx THEN r.x2 ELSE r.x1,
        x2 |-> IF sx THEN r.x1 ELSE r.x2,
        y1 |-> IF sy THEN r.y2 ELSE r.y1,
        y2 |-> IF sy THEN r.y1 ELSE r.y2]

Max(a, b) == IF a >= b THEN a ELSE b

-----------------------------------------------------------------------------
(* Environment: the files the operator can pick and the screen *)

Files == {"small.png", "big.png", "exam.pdf", "corrupt.png", "corrupt.pdf"}

\* os.path.splitext(filename)[1].lower() == '.pdf'
IsPdfName(f) == f \in {"exam.pdf", "corrupt.pdf"}

\* whether PIL / fitz can open the file
Opens(f) == f \in {"small.png", "big.png", "exam.pdf"}

\* pixel size of an image file
ImageSize(f) ==
    IF f = "big.png" THEN [w |-> 1600, h |-> 1000] ELSE [w |-> 400, h |-> 300]

\* pages of a PDF: size in points and whether the page renders
PdfPages(f) ==
    IF f = "exam.pdf"
    THEN << [w |-> 500, h |-> 700, renders |-> TRUE],
            [w |-> 600, h |-> 300, renders |-> TRUE],
            [w |-> 500, h |-> 500, renders |-> FALSE] >>
    ELSE << >>

\* QApplication.desktop().screenGeometry()
ScreenW == 1000
ScreenH == 1000

-----------------------------------------------------------------------------
(* ImageCropWidget.__init__ *)

\* the raster the widget keeps as original_pixmap / original_image:
\* a PDF page rendered through fitz.Matrix(2.0, 2.0), or the image file
OriginalSize(image_path, pdf, pdf_page) ==
    IF pdf /\ PDF_SUPPORT
    THEN LET pg == PdfPages(image_path)[pdf_page + 1]
         IN [w |-> 2 * pg.w, h |-> 2 * pg.h]
    ELSE ImageSize(image_path)

\* whether the constructor returns (TRUE) or raises (FALSE)
WidgetLoads(image_path, pdf, pdf_page) ==
    IF pdf /\ PDF_SUPPORT
    THEN /\ Opens(image_path)
         /\ pdf_page + 1 \in DOMAIN PdfPages(image_path)
         /\ PdfPages(image_path)[pdf_page + 1].renders
    ELSE Opens(image_path)

\* QPixmap.scaled(max_width, max_height, Qt.KeepAspectRatio).width()
ScaledWidth(size, max_width, max_height) ==
    LET rw == (max_height * size.w) \div size.h
    IN IF rw <= max_width THEN rw ELSE max_width

\* scale_factor computed by the constructor
InitScaleFactor(size) ==
    LET max_width == (ScreenW * 8) \div 10
        max_height == (ScreenH * 7) \div 10
    IN IF size.w > max_width \/ size.h > max_height
       THEN <<ScaledWidth(size, max_width, max_height), size.w>>
       ELSE <<1, 1>>

\* mutant of ImageCropWidget_init: the Regions of the previous widget are kept
ImageCropWidget_init_keeps(image_path, pdf, pdf_page) ==
    /\ crop_widget' = <<image_path, pdf, pdf_page>>
    /\ scale_factor' = InitScaleFactor(OriginalSize(image_path, pdf, pdf_page))
    /\ start_point' = None
    /\ is_drawing' = FALSE
    /\ UNCHANGED <<rectangles, current_question_number>>

\* the fields of a newly constructed widget
ImageCropWidget_init(image_path, pdf, pdf_page) ==
    /\ crop_widget' = <<image_path, pdf, pdf_page>>
    /\ scale_factor' = InitScaleFactor(OriginalSize(image_path, pdf, pdf_page))
    /\ start_point' = None
    /\ rectangles' = << >>
    /\ current_question_number' = 1
    /\ is_drawing' = FALSE

-----------------------------------------------------------------------------
(* Configuration files and the history variables *)

ItemKeys == {"question_number", "x", "y", "width", "height"}

\* a record of a configuration file; keys is the set of keys it has
Item(keys, qnum, x, y, w, h) ==
    [keys |-> keys, question_number |-> qnum, x |-> x, y |-> y, width |-> w, height |-> h]

\* a configuration file: unreadable (missing, not JSON), JSON that is no list,
\* or a list of records
JsonFile(readable, is_list, items) ==
    [readable |-> readable, is_list |-> is_list, items |-> items]

NoFile == JsonFile(FALSE, FALSE, << >>)

\* history: the handler that ran and its outcome; it read no configuration file
Called(outcome) == last_call' = outcome /\ last_file' = NoFile

-----------------------------------------------------------------------------
(* ImageCropWidget: mouse handlers *)

\* positions the pointer is pressed / released at
Points == { <<100, 100>>, <<109, 110>>, <<110, 109>>, <<110, 110>> }

Buttons == {"LeftButton", "RightButton"}

\* mutant of Admits: the boundary size 10 is admitted
Admits_from10(rect) == RectWidth(rect) >= 10 /\ RectHeight(rect) >= 10

\* the size test of mouseReleaseEvent
Admits(rect) == RectWidth(rect) > 10 /\ RectHeight(rect) > 10

mousePressEvent(button, pos) ==
    /\ crop_widget # None
    /\ IF button = "LeftButton"
       THEN start_point' = pos /\ is_drawing' = TRUE
       ELSE UNCHANGED <<start_point, is_drawing>>
    /\ Called("mousePressEvent")
    /\ UNCHANGED <<PDF_SUPPORT, window_vars, crop_widget, scale_factor, rectangles,
                   current_question_number, config_json, cropped, table_vars, report_vars>>

mouseReleaseEvent(button, pos) ==
    /\ crop_widget # None
    /\ Len(rectangles) < MaxRegions
    /\ current_question_number < MaxCounter
    /\ IF button = "LeftButton" /\ is_drawing
       THEN LET rect == Normalized(QRectOfPoints(start_point, pos))
            IN /\ is_drawing' = FALSE
               /\ start_point' = None
               /\ IF Admits(rect)
                  THEN /\ rectangles' = Append(rectangles,
                                               [rect |-> rect, qnum |-> current_question_number])
                       /\ current_question_number' = current_question_number + 1
                       /\ Called("mouseReleaseEvent:admitted")
                  ELSE /\ UNCHANGED <<rectangles, current_question_number>>
                       /\ Called("mouseReleaseEvent:rejected")
       ELSE /\ UNCHANGED <<is_drawing, start_point, rectangles, current_question_number>>
            /\ Called("mouseReleaseEvent:ignored")
    /\ UNCHANGED <<PDF_SUPPORT, window_vars, crop_widget, scale_factor, config_json, cropped,
                   table_vars, report_vars>>

-----------------------------------------------------------------------------
(* ImageCropWidget: clear_last, clear_all *)

\* mutant of clear_last: the oldest Region is removed instead of the newest
clear_last_oldest ==
    IF rectangles # << >>
    THEN /\ rectangles' = Tail(rectangles)
         /\ current_question_number' = current_question_number - 1
    ELSE UNCHANGED <<rectangles, current_question_number>>

\* mutant of clear_last: the counter is not taken back
clear_last_keeps_counter ==
    IF rectangles # << >>
    THEN /\ rectangles' = SubSeq(rectangles, 1, Len(rectangles) - 1)
         /\ UNCHANGED current_question_number
    ELSE UNCHANGED <<rectangles, current_question_number>>

clear_last ==
    IF rectangles # << >>
    THEN /\ rectangles' = SubSeq(rectangles, 1, Len(rectangles) - 1)
         /\ current_question_number' = current_question_number - 1
    ELSE UNCHANGED <<rectangles, current_question_number>>

\* mutant of clear_all: the counter is not reset
clear_all_keeps_counter ==
    /\ rectangles' = << >>
    /\ UNCHANGED current_question_number

clear_all ==
    /\ rectangles' = << >>
    /\ current_question_number' = 1

-----------------------------------------------------------------------------
(* ImageCropWidget: save_regions_config, load_regions_config *)

\* mutant of ConfigOf: rect.right() / rect.bottom() written as width / height
ConfigOf_right(rects) ==
    [i \in 1..Len(rects) |->
        Item(ItemKeys, rects[i].qnum,
             JsonOfInt(RectX(rects[i].rect)), JsonOfInt(RectY(rects[i].rect)),
             JsonOfInt(RectRight(rects[i].rect)), JsonOfInt(RectBottom(rects[i].rect)))]

\* the list json.dump writes
ConfigOf(rects) ==
    [i \in 1..Len(rects) |->
        Item(ItemKeys, rects[i].qnum,
             JsonOfInt(RectX(rects[i].rect)), JsonOfInt(RectY(rects[i].rect)),
             JsonOfInt(RectWidth(rects[i].rect)), JsonOfInt(RectHeight(rects[i].rect)))]

save_regions_config ==
    config_json' = JsonFile(TRUE, TRUE, ConfigOf(rectangles))

\* mutant of LoadItems: max_qnum is the number of the record read last
RECURSIVE LoadItems_last(_, _, _)
LoadItems_last(items, rects, max_qnum) ==
    IF items = << >>
    THEN [raised |-> FALSE, rectangles |-> rects, max_qnum |-> max_qnum]
    ELSE LET item == Head(items)
         IN IF ~(ItemKeys \subseteq item.keys)
            THEN [raised |-> TRUE, rectangles |-> rects, max_qnum |-> max_qnum]
            ELSE LoadItems_last(Tail(items),
                                Append(rects,
                                       [rect |-> QRectOfXYWH(PyInt(item.x), PyInt(item.y),
                                                             PyInt(item.width), PyInt(item.height)),
                                        qnum |-> item.question_number]),
                                item.question_number)

\* the for loop of load_regions_config: item['x'] ... item['question_number']
\* raise KeyError on a record lacking the key, before the record is appended
RECURSIVE LoadItems(_, _, _)
LoadItems(items, rects, max_qnum) ==
    IF items = << >>
    THEN [raised |-> FALSE, rectangles |-> rects, max_qnum |-> max_qnum]
    ELSE LET item == Head(items)
         IN IF ~(ItemKeys \subseteq item.keys)
            THEN [raised |-> TRUE, rectangles |-> rects, max_qnum |-> max_qnum]
            ELSE LoadItems(Tail(items),
                           Append(rects,
                                  [rect |-> QRectOfXYWH(PyInt(item.x), PyInt(item.y),
                                                        PyInt(item.width), PyInt(item.height)),
                                   qnum |-> item.question_number]),
                           Max(max_qnum, item.question_number))

\* the value load_regions_config returns
LoadReturns(file) ==
    /\ file.readable
    /\ file.is_list
    /\ ~LoadItems(file.items, << >>, 0).raised

load_regions_config(file) ==
    IF ~file.readable
    THEN \* open / json.load raised: nothing assigned yet
         UNCHANGED <<rectangles, current_question_number>>
    ELSE IF ~file.is_list
    THEN \* self.rectangles = [] ran, then iterating raised
         /\ rectangles' = << >>
         /\ UNCHANGED current_question_number
    ELSE LET r == LoadItems(file.items, << >>, 0)
         IN /\ rectangles' = r.rectangles
            /\ IF r.raised
               THEN UNCHANGED current_question_number
               ELSE current_question_number' = r.max_qnum + 1

-----------------------------------------------------------------------------
(* ImageCropWidget: get_cropped_regions *)

\* sorted(rects, key=lambda x: x[1]): stable, ascending question number
RECURSIVE InsertByQnum(_, _)
InsertByQnum(sorted, e) ==
    IF sorted = << >> THEN << e >>
    ELSE LET last == sorted[Len(sorted)]
         IN IF last.qnum <= e.qnum
            THEN Append(sorted, e)
            ELSE Append(InsertByQnum(SubSeq(sorted, 1, Len(sorted) - 1), e), last)

\* mutant of SortedByQnum: the Regions are taken in store order
SortedByQnum_unsorted(rects) == rects

RECURSIVE SortedByQnum(_)
SortedByQnum(rects) ==
    IF rects = << >> THEN << >>
    ELSE InsertByQnum(SortedByQnum(SubSeq(rects, 1, Len(rects) - 1)), rects[Len(rects)])

\* int(v / self.scale_factor)
ToOriginal(v, scale) == PyIntDiv(v * scale[2], scale[1])

\* the box handed to original_image.crop
CropBox(rect, scale) ==
    << ToOriginal(RectX(rect), scale), ToOriginal(RectY(rect), scale),
       ToOriginal(RectRight(rect), scale), ToOriginal(RectBottom(rect), scale) >>

get_cropped_regions ==
    LET sorted_rects == SortedByQnum(rectangles)
    IN [i \in 1..Len(sorted_rects) |->
           [qnum |-> sorted_rects[i].qnum, box |-> CropBox(sorted_rects[i].rect, scale_factor)]]

-----------------------------------------------------------------------------
(* Configuration files the operator can pick in load_config *)

\* question numbers written in operator-supplied files
FileQNums == {-1, 1, 3}

\* one well-formed record per question number (number 3 with the fractional
\* coordinates 10.5, 20.5, 30.5, 40.5) and one record lacking 'width'
FileItems ==
    { Item(ItemKeys, q, IF q = 3 THEN 21 ELSE 20, IF q = 3 THEN 41 ELSE 40,
           IF q = 3 THEN 61 ELSE 60, IF q = 3 THEN 81 ELSE 80) : q \in FileQNums }
    \cup { Item(ItemKeys \ {"width"}, 1, 20, 40, 0, 80) }

RECURSIVE SeqsUpTo(_, _)
SeqsUpTo(S, n) ==
    IF n = 0 THEN { << >> }
    ELSE LET shorter == SeqsUpTo(S, n - 1)
         IN shorter \cup { Append(q, e) : q \in shorter, e \in S }

ConfigFiles ==
    { NoFile, JsonFile(TRUE, FALSE, << >>) }
    \cup { JsonFile(TRUE, TRUE, items) : items \in SeqsUpTo(FileItems, MaxFileLen) }

-----------------------------------------------------------------------------
(* Python / pandas primitives on texts and cells *)

(* A text is the sequence of its characters.  An ASCII character is the    *)
(* one-letter string; a Chinese character is written by its pinyin:        *)
(* xing ming = the identity marker, xue sheng = "student", man fen = the   *)
(* full-score marker, ti = the question marker, zhu / ke = the subjective  *)
(* / objective marker, de fen = the score-label marker.                    *)

Str(s) == [t |-> "str", n |-> 0, s |-> s]
Num(n) == [t |-> "num", n |-> n, s |-> << >>]
NaN == [t |-> "nan", n |-> 0, s |-> << >>]

DigitChars == <<"0", "1", "2", "3", "4", "5", "6", "7", "8", "9">>

\* str(n) of a non-negative int
RECURSIVE StrOfNat(_)
StrOfNat(n) ==
    IF n < 10 THEN << DigitChars[n + 1] >>
    ELSE Append(StrOfNat(n \div 10), DigitChars[(n % 10) + 1])

\* str(v) of a number v held in tenths, as Python prints a float: 2.0, -0.5
StrOfNum(n) ==
    LET a == IF n < 0 THEN -n ELSE n
    IN (IF n < 0 THEN <<"-">> ELSE << >>)
       \o StrOfNat(a \div 10) \o <<".">> \o StrOfNat(a % 10)

\* str(val) of a cell or a column label
PyStr(c) ==
    IF c.t = "str" THEN c.s
    ELSE IF c.t = "num" THEN StrOfNum(c.n)
    ELSE <<"n", "a", "n">>

\* sub in s
Contains(s, sub) ==
    \E i \in 0..(Len(s) - Len(sub)) : SubSeq(s, i + 1, i + Len(sub)) = sub

\* s.strip()
RECURSIVE Strip(_)
Strip(s) ==
    IF s = << >> THEN s
    ELSE IF Head(s) = " " THEN Strip(Tail(s))
    ELSE IF s[Len(s)] = " " THEN Strip(SubSeq(s, 1, Len(s) - 1))
    ELSE s

\* s.lower()
Lower(s) ==
    [i \in 1..Len(s) |->
        CASE s[i] = "N" -> "n" [] s[i] = "A" -> "a" [] s[i] = "M" -> "m"
          [] s[i] = "E" -> "e" [] s[i] = "U" -> "u" [] OTHER -> s[i]]

\* s.replace(ch, '')
Remove(s, ch) == SelectSeq(s, LAMBDA c : c # ch)

\* s.isdigit()
IsDigit(s) ==
    /\ s # << >>
    /\ \A i \in 1..Len(s) : \E d \in 1..Len(DigitChars) : DigitChars[d] = s[i]

\* s[:2]
Prefix2(s) == SubSeq(s, 1, IF Len(s) < 2 THEN Len(s) ELSE 2)

\* ' '.join(texts)
RECURSIVE JoinSpace(_)
JoinSpace(texts) ==
    IF texts = << >> THEN << >>
    ELSE IF Len(texts) = 1 THEN texts[1]
    ELSE texts[1] \o <<" ">> \o JoinSpace(Tail(texts))

\* int(s) of a text of digits
RECURSIVE NatOfStr(_)
NatOfStr(s) ==
    IF s = << >> THEN 0
    ELSE 10 * NatOfStr(SubSeq(s, 1, Len(s) - 1))
         + (CHOOSE d \in 0..9 : DigitChars[d + 1] = s[Len(s)])

\* float(s) of a text: surrounding blanks and a sign are accepted, then
\* digits with at most one point; anything else raises ValueError.  The value
\* is held in tenths (texts carry at most one fractional digit).
ParseFloat(s) ==
    LET t == Strip(s)
        neg == t # << >> /\ Head(t) = "-"
        body == IF t # << >> /\ Head(t) \in {"-", "+"} THEN Tail(t) ELSE t
        dots == { i \in 1..Len(body) : body[i] = "." }
        ip == IF dots = {} THEN body
              ELSE SubSeq(body, 1, (CHOOSE i \in dots : TRUE) - 1)
        fp == IF dots = {} THEN << >>
              ELSE SubSeq(body, (CHOOSE i \in dots : TRUE) + 1, Len(body))
        ok == /\ Cardinality(dots) <= 1
              /\ ip \o fp # << >>
              /\ IsDigit(ip \o fp)
        v == 10 * NatOfStr(ip) + (IF fp = << >> THEN 0 ELSE NatOfStr(SubSeq(fp, 1, 1)))
    IN [ok |-> ok, v |-> IF ok THEN (IF neg THEN -v ELSE v) ELSE 0]

\* float(score): a number is its value, a text is parsed; [ok, v]
PyFloat(c) ==
    IF c.t = "num" THEN [ok |-> TRUE, v |-> c.n]
    ELSE IF c.t = "str" THEN ParseFloat(c.s)
    ELSE [ok |-> TRUE, v |-> 1]   \* float('nan'): a value that is not 0

\* pd.isna(val)
IsNa(c) == c.t = "nan"

RECURSIVE Gcd(_, _)
Gcd(a, b) == IF b = 0 THEN a ELSE Gcd(b, a % b)

-----------------------------------------------------------------------------
(* pandas: read_excel, dropna *)

DataFrame(columns, rows) == [columns |-> columns, rows |-> rows]

\* the label pandas gives column j of a header row: 'Unnamed: j' for an empty
\* cell, the cell itself otherwise, with '.k' appended to the k-th repetition
Label(row, j) ==
    LET dup == Cardinality({ i \in 1..(j - 1) : row[i] = row[j] })
    IN IF IsNa(row[j])
       THEN Str(<<"U", "n", "n", "a", "m", "e", "d", ":", " ">> \o StrOfNat(j - 1))
       ELSE IF dup = 0 THEN row[j]
       ELSE Str(PyStr(row[j]) \o <<".">> \o StrOfNat(dup))

Labels(row) == [j \in 1..Len(row) |-> Label(row, j)]

\* pd.read_excel(filename, header=header) on the rows of the sheet;
\* header is <<>> for header=None and <<i>> for header=i
ReadExcel(rows, header) ==
    IF header = None
    THEN DataFrame([j \in 1..(IF rows = << >> THEN 0 ELSE Len(rows[1])) |-> Num(10 * (j - 1))],
                   rows)
    ELSE IF header[1] + 1 > Len(rows)
    THEN DataFrame(<< >>, << >>)
    ELSE DataFrame(Labels(rows[header[1] + 1]), SubSeq(rows, header[1] + 2, Len(rows)))

\* df.dropna(how='all').reset_index(drop=True)
DropNa(frame) ==
    DataFrame(frame.columns,
              SelectSeq(frame.rows, LAMBDA r : \E j \in 1..Len(r) : ~IsNa(r[j])))

-----------------------------------------------------------------------------
(* MainWindow.load_excel: header search and score-label row *)

\* any('xing ming' in str(val) for val in row_values)
RowHasNameMarker(row) ==
    \E j \in 1..Len(row) : Contains(PyStr(row[j]), <<"xing", "ming">>)

\* mutant of FindHeaderFrom: every row of the sheet is scanned
RECURSIVE FindHeaderFrom_nowindow(_, _)
FindHeaderFrom_nowindow(rows, i) ==
    IF i >= Len(rows) THEN None
    ELSE IF RowHasNameMarker(rows[i + 1]) THEN <<i>>
    ELSE FindHeaderFrom_nowindow(rows, i + 1)

\* the loop for i in range(min(5, len(df_raw))), from index i on
RECURSIVE FindHeaderFrom(_, _)
FindHeaderFrom(rows, i) ==
    IF i >= (IF Len(rows) < 5 THEN Len(rows) ELSE 5) THEN None
    ELSE IF RowHasNameMarker(rows[i + 1]) THEN <<i>>
    ELSE FindHeaderFrom(rows, i + 1)

\* mutant of DropScoreLabelRow: the row is kept
DropScoreLabelRow_never(frame) == frame

\* the first data row is dropped when its joined text contains 'de fen'
DropScoreLabelRow(frame) ==
    IF /\ Len(frame.rows) > 0
       /\ Contains(JoinSpace([j \in 1..Len(frame.rows[1]) |-> PyStr(frame.rows[1][j])]),
                   <<"de", "fen">>)
    THEN DataFrame(frame.columns, Tail(frame.rows))
    ELSE frame

-----------------------------------------------------------------------------
(* MainWindow.analyze_questions *)

\* the test of the name-column loop
HasNameMarker(col) ==
    \/ Contains(PyStr(col), <<"xing", "ming">>)
    \/ Contains(Lower(PyStr(col)), <<"n", "a", "m", "e">>)
    \/ Contains(PyStr(col), <<"xue", "sheng">>)

\* name_column, as the position of the column in df.columns (1-based)
name_column(columns) ==
    IF \E j \in 1..Len(columns) : HasNameMarker(columns[j])
    THEN CHOOSE j \in 1..Len(columns) :
            /\ HasNameMarker(columns[j])
            /\ \A i \in 1..(j - 1) : ~HasNameMarker(columns[i])
    ELSE IF Len(columns) > 2 THEN 3
    ELSE IF Len(columns) > 1 THEN 2
    ELSE 1

\* col_str != name_column: a text differs from every label that is not a text
DiffersFromLabel(col_str, label) == label.t # "str" \/ label.s # col_str

\* the test that puts a column into all_question_columns
IsQuestionColumn(col, name_label) ==
    \/ Contains(PyStr(col), <<"man", "fen">>)
    \/ Contains(PyStr(col), <<"ti">>)
    \/ /\ IsDigit(Remove(Remove(PyStr(col), "."), "-"))
       /\ DiffersFromLabel(PyStr(col), name_label)

IsSubjectiveName(col_str) ==
    Contains(col_str, <<"zhu", "-">>) \/ Contains(Prefix2(col_str), <<"zhu">>)

IsObjectiveName(col_str) ==
    Contains(col_str, <<"ke", "-">>) \/ Contains(Prefix2(col_str), <<"ke">>)

\* the positions 1..n, in order
Positions(n) == [j \in 1..n |-> j]

all_question_columns(columns) ==
    SelectSeq(Positions(Len(columns)),
              LAMBDA j : IsQuestionColumn(columns[j], columns[name_column(columns)]))

subjective_columns(columns) ==
    SelectSeq(all_question_columns(columns),
              LAMBDA j : \/ IsSubjectiveName(PyStr(columns[j]))
                         \/ ~IsObjectiveName(PyStr(columns[j])))

objective_columns(columns) ==
    SelectSeq(all_question_columns(columns),
              LAMBDA j : /\ ~IsSubjectiveName(PyStr(columns[j]))
                         /\ IsObjectiveName(PyStr(columns[j])))

\* mutant of score_columns: all question columns are scored
score_columns_all(columns) == all_question_columns(columns)

\* the list the scoring loop enumerates
score_columns(columns) ==
    IF Len(subjective_columns(columns)) > 0
    THEN subjective_columns(columns)
    ELSE all_question_columns(columns)

\* the row is skipped for its name: missing, blank or a header word
SkipsName(cell) ==
    \/ IsNa(cell)
    \/ Strip(PyStr(cell)) = << >>
    \/ Strip(PyStr(cell)) \in { <<"xing", "ming">>, <<"xue", "sheng">>,
                                <<"n", "a", "m", "e">>, <<"N", "a", "m", "e">> }

\* mutant of Unanswered: no cell is taken as unanswered
Unanswered_none(cell) == FALSE

\* score_str in ['-', '', 'nan', 'NaN']
Unanswered(cell) ==
    Strip(PyStr(cell)) \in { <<"-">>, << >>, <<"n", "a", "n">>, <<"N", "a", "N">> }

\* mutant of ScoreRow: a zero score counts as correct
ScoreRow_zero_correct(acc, name_cell, score) ==
    IF SkipsName(name_cell) \/ Unanswered(score) \/ ~PyFloat(score).ok
    THEN acc
    ELSE [acc EXCEPT !.correct_count = @ + 1]

\* mutant of ScoreRow: a zero score is counted as wrong and as answered
ScoreRow_both(acc, name_cell, score) ==
    IF SkipsName(name_cell) \/ Unanswered(score) \/ ~PyFloat(score).ok
    THEN acc
    ELSE IF PyFloat(score).v = 0
    THEN [acc EXCEPT !.wrong_students = Append(@, Strip(PyStr(name_cell))),
                     !.wrong_count = @ + 1,
                     !.correct_count = @ + 1]
    ELSE [acc EXCEPT !.correct_count = @ + 1]

\* one turn of the loop over df.iterrows() for a column
ScoreRow(acc, name_cell, score) ==
    IF SkipsName(name_cell) THEN acc
    ELSE IF Unanswered(score) THEN acc
    ELSE IF ~PyFloat(score).ok THEN acc
    ELSE IF PyFloat(score).v = 0
    THEN [acc EXCEPT !.wrong_students = Append(@, Strip(PyStr(name_cell))),
                     !.wrong_count = @ + 1]
    ELSE [acc EXCEPT !.correct_count = @ + 1]

\* the loop over the rows for the column at position col
RECURSIVE ScoreColumn(_, _, _)
ScoreColumn(rows, name_pos, col) ==
    IF rows = << >>
    THEN [wrong_students |-> << >>, correct_count |-> 0, wrong_count |-> 0]
    ELSE ScoreRow(ScoreColumn(SubSeq(rows, 1, Len(rows) - 1), name_pos, col),
                  rows[Len(rows)][name_pos], rows[Len(rows)][col])

\* mutant of correct_rate: the share is taken of the wrong answers
correct_rate_of_wrong(correct_count, wrong_count) ==
    LET total == correct_count + wrong_count
    IN IF total > 0
       THEN << (wrong_count * 100) \div Gcd(wrong_count * 100, total),
               total \div Gcd(wrong_count * 100, total) >>
       ELSE <<0, 1>>

\* (correct_count / total * 100) if total > 0 else 0, in lowest terms
correct_rate(correct_count, wrong_count) ==
    LET total == correct_count + wrong_count
    IN IF total > 0
       THEN << (correct_count * 100) \div Gcd(correct_count * 100, total),
               total \div Gcd(correct_count * 100, total) >>
       ELSE <<0, 1>>

\* the dictionary analyze_questions returns, for a frame with columns
analyze_questions(frame) ==
    LET cols == score_columns(frame.columns)
    IN [idx \in 1..Len(cols) |->
          LET r == ScoreColumn(frame.rows, name_column(frame.columns), cols[idx])
          IN [wrong_students |-> r.wrong_students,
              correct_count |-> r.correct_count,
              wrong_count |-> r.wrong_count,
              correct_rate |-> correct_rate(r.correct_count, r.wrong_count),
              column_name |-> frame.columns[cols[idx]]]]

-----------------------------------------------------------------------------
(* MainWindow handlers *)

\* load_image with the file the dialog returned.  For a PDF the handler
\* refills pdf_page_combo, whose currentIndexChanged signal runs
\* change_pdf_page on the new document before the handler builds its own
\* widget; the handler's own assignments (current_pdf_page = 0, crop_widget)
\* come last and are the ones modelled.
load_image(filename) ==
    /\ exam_image' = filename
    /\ IF IsPdfName(filename) /\ ~PDF_SUPPORT
       THEN /\ Called("load_image:critical:no_pdf_support")
            /\ UNCHANGED <<is_pdf, pdf_total_pages, current_pdf_page, widget_vars>>
       ELSE IF IsPdfName(filename) /\ ~Opens(filename)
       THEN \* fitz.open raised after is_pdf was set
            /\ is_pdf' = TRUE
            /\ Called("load_image:critical:load_failed")
            /\ UNCHANGED <<pdf_total_pages, current_pdf_page, widget_vars>>
       ELSE /\ is_pdf' = IsPdfName(filename)
            /\ pdf_total_pages' = IF IsPdfName(filename) THEN Len(PdfPages(filename))
                                  ELSE pdf_total_pages
            /\ current_pdf_page' = IF IsPdfName(filename) THEN 0 ELSE current_pdf_page
            /\ IF WidgetLoads(filename, is_pdf', current_pdf_page')
               THEN /\ ImageCropWidget_init(filename, is_pdf', current_pdf_page')
                    /\ Called("load_image:information")
               ELSE /\ Called("load_image:critical:load_failed")
                    /\ UNCHANGED widget_vars
    /\ UNCHANGED <<PDF_SUPPORT, config_json, cropped, table_vars, report_vars>>

\* change_pdf_page(index): the operator picks another entry of pdf_page_combo
change_pdf_page(index) ==
    /\ index # current_pdf_page
    /\ IF is_pdf /\ exam_image # "None"
       THEN /\ current_pdf_page' = index
            /\ IF WidgetLoads(exam_image, is_pdf, index)
               THEN /\ ImageCropWidget_init(exam_image, is_pdf, index)
                    /\ Called("change_pdf_page:information")
               ELSE /\ Called("change_pdf_page:critical")
                    /\ UNCHANGED widget_vars
       ELSE /\ Called("change_pdf_page:ignored")
            /\ UNCHANGED <<current_pdf_page, widget_vars>>
    /\ UNCHANGED <<PDF_SUPPORT, exam_image, is_pdf, pdf_total_pages, config_json, cropped,
                   table_vars, report_vars>>

clear_last_rect ==
    /\ crop_widget # None
    /\ current_question_number > -MaxDeficit
    /\ clear_last
    /\ Called("clear_last_rect")
    /\ UNCHANGED <<PDF_SUPPORT, window_vars, crop_widget, scale_factor, start_point,
                   is_drawing, config_json, cropped, table_vars, report_vars>>

\* reply is the button pressed in the confirmation box
clear_all_rects(reply) ==
    /\ crop_widget # None
    /\ IF reply = "Yes"
       THEN clear_all /\ Called("clear_all_rects:Yes")
       ELSE UNCHANGED <<rectangles, current_question_number>>
            /\ Called("clear_all_rects:No")
    /\ UNCHANGED <<PDF_SUPPORT, window_vars, crop_widget, scale_factor, start_point,
                   is_drawing, config_json, cropped, table_vars, report_vars>>

save_config ==
    /\ crop_widget # None
    /\ exam_image # "None"
    /\ save_regions_config
    /\ Called("save_config:information")
    /\ UNCHANGED <<PDF_SUPPORT, window_vars, widget_vars, cropped, table_vars, report_vars>>

\* load_config with the file the dialog returned
load_config(file) ==
    /\ crop_widget # None
    /\ load_regions_config(file)
    /\ last_call' = IF LoadReturns(file) THEN "load_config:information"
                    ELSE "load_config:critical"
    /\ last_file' = file
    /\ UNCHANGED <<PDF_SUPPORT, window_vars, crop_widget, scale_factor, start_point,
                   is_drawing, config_json, cropped, table_vars, report_vars>>

\* a spreadsheet file: whether pandas can read it, and the rows of its sheet
ExcelFile(readable, rows) == [readable |-> readable, rows |-> rows]

\* load_excel with the file the dialog returned
load_excel ==
    /\ IF ~excel_grid.readable
       THEN \* the first pd.read_excel raised
            /\ Called("load_excel:critical")
            /\ UNCHANGED <<df, header_row>>
       ELSE LET df_raw == ReadExcel(excel_grid.rows, None)
                found == FindHeaderFrom(df_raw.rows, 0)
                frame == IF found # None
                         THEN DropScoreLabelRow(ReadExcel(excel_grid.rows, found))
                         ELSE ReadExcel(excel_grid.rows, <<0>>)
            IN /\ header_row' = found
               /\ df' = << DropNa(frame) >>
               /\ Called("load_excel:information")
    /\ UNCHANGED <<PDF_SUPPORT, window_vars, widget_vars, config_json, cropped,
                   excel_grid, report_vars>>

\* the list `missing` generate_ppt builds
MissingList ==
    (IF df = None THEN <<"excel">> ELSE << >>)
    \o (IF exam_image = "None" THEN <<"image">> ELSE << >>)
    \o (IF crop_widget = None \/ Len(rectangles) = 0 THEN <<"regions">> ELSE << >>)

\* the slides added after the title page: one per cropped region, with the
\* statistics found under its question number or the no-statistics note
Slides(regions, question_stats) ==
    [i \in 1..Len(regions) |->
        [qnum |-> regions[i].qnum, has_stats |-> regions[i].qnum \in DOMAIN question_stats]]

\* generate_ppt; saved tells whether assembling and prs.save went through
\* (the regions are those drawn on the displayed raster, which crop accepts)
generate_ppt(saved) ==
    /\ missing' = MissingList
    /\ IF MissingList # << >>
       THEN /\ Called("generate_ppt:warning")
            /\ UNCHANGED <<cropped, stats, ppt>>
       ELSE /\ cropped' = get_cropped_regions
            /\ IF Len(df[1].columns) = 0
               THEN \* analyze_questions raised IndexError on df.columns[0]
                    /\ Called("generate_ppt:critical")
                    /\ UNCHANGED <<stats, ppt>>
               ELSE /\ stats' = analyze_questions(df[1])
                    /\ IF saved
                       THEN /\ ppt' = Slides(cropped', stats')
                            /\ Called("generate_ppt:information")
                       ELSE /\ Called("generate_ppt:critical")
                            /\ UNCHANGED ppt
    /\ UNCHANGED <<PDF_SUPPORT, window_vars, widget_vars, config_json, table_vars>>

-----------------------------------------------------------------------------
(* Sessions *)

\* the spreadsheet picked in the sessions that are not about the loader:
\* a header row, the score-label row and three students
ReportGrid ==
    ExcelFile(TRUE,
              << << Str(<<"xing", "ming">>), Str(<<"zhu", "-", "1", "man", "fen">>) >>,
                 << NaN, Str(<<"de", "fen">>) >>,
                 << Str(<<"jia">>), Num(20) >>,
                 << Str(<<"yi">>), Num(0) >>,
                 << Str(<<"bing">>), Str(<<"-">>) >> >>)

\* the fields MainWindow.__init__ sets for the image and the widget
InitImageFields ==
    /\ PDF_SUPPORT \in BOOLEAN
    /\ exam_image = "None"
    /\ is_pdf = FALSE
    /\ pdf_total_pages = 0
    /\ current_pdf_page = 0
    /\ crop_widget = None
    /\ scale_factor = <<1, 1>>
    /\ rectangles = << >>
    /\ current_question_number = 1
    /\ start_point = None
    /\ is_drawing = FALSE
    /\ config_json = NoFile
    /\ cropped = << >>
    /\ last_call = "None"
    /\ last_file = NoFile

\* nothing analysed, reported or written yet
InitReportFields ==
    /\ header_row = None
    /\ stats = << >>
    /\ missing = << >>
    /\ ppt = << >>

\* the state MainWindow.__init__ leaves, and the spreadsheet on disk
InitWindow ==
    /\ InitImageFields
    /\ excel_grid = ReportGrid
    /\ df = None
    /\ InitReportFields

MousePress == \E button \in Buttons, pos \in Points : mousePressEvent(button, pos)
MouseRelease == \E button \in Buttons, pos \in Points : mouseReleaseEvent(button, pos)
ClearLastRect == clear_last_rect
ClearAllRects == \E reply \in {"Yes", "No"} : clear_all_rects(reply)
SaveConfig == save_config
LoadConfig == \E file \in ConfigFiles : load_config(file)
LoadSavedConfig == load_config(config_json)

(* The Region Store session: one image is (re)loaded, Regions are drawn,    *)
(* undone, cleared, saved and loaded.  Reloading the image replaces the     *)
(* widget by a new one, as every image replacement does.                    *)

Init == InitWindow /\ PDF_SUPPORT = TRUE

LoadImage == load_image("small.png")

Next ==
    \/ LoadImage
    \/ MousePress
    \/ MouseRelease
    \/ ClearLastRect
    \/ ClearAllRects
    \/ SaveConfig
    \/ LoadConfig
    \/ LoadSavedConfig

Spec == Init /\ [][Next]_vars

(* The image session: any file is loaded, PDF pages are switched, Regions   *)
(* are drawn and undone in between.                                         *)

LoadAnyImage == \E filename \in Files : load_image(filename)
ChangePdfPage == \E index \in 0..(pdf_total_pages - 1) : change_pdf_page(index)

NextWindow ==
    \/ LoadAnyImage
    \/ ChangePdfPage
    \/ MousePress
    \/ MouseRelease
    \/ ClearLastRect
    \/ SaveConfig

SpecWindow == InitWindow /\ [][NextWindow]_vars

(* The cropper: a widget showing one of the loadable rasters holds a list   *)
(* of Regions, and get_cropped_regions is called on it.                     *)

\* longest Region list handed to the cropper
MaxCropRegions == 2

\* the widgets that can be built: <<image_path, is_pdf, pdf_page>>
Rasters ==
    { <<"small.png", FALSE, 0>>, <<"big.png", FALSE, 0>>,
      <<"exam.pdf", TRUE, 0>>, <<"exam.pdf", TRUE, 1>> }

\* display rectangles (x, y, width, height) and question numbers of the Regions
CropRegions ==
    { [rect |-> QRectOfXYWH(r[1], r[2], r[3], r[4]), qnum |-> q] :
        r \in { <<100, 100, 50, 50>>, <<0, 0, 11, 11>>, <<-3, 7, 20, 15>> },
        q \in {1, 2} }

InitCrop ==
    /\ PDF_SUPPORT = TRUE
    /\ \E w \in Rasters :
         /\ exam_image = w[1]
         /\ is_pdf = w[2]
         /\ pdf_total_pages = Len(PdfPages(w[1]))
         /\ current_pdf_page = w[3]
         /\ crop_widget = w
         /\ scale_factor = InitScaleFactor(OriginalSize(w[1], w[2], w[3]))
    /\ rectangles \in SeqsUpTo(CropRegions, MaxCropRegions)
    /\ current_question_number = 3
    /\ start_point = None
    /\ is_drawing = FALSE
    /\ config_json = NoFile
    /\ cropped = << >>
    /\ last_call = "None"
    /\ last_file = NoFile
    /\ excel_grid = ReportGrid
    /\ df = None
    /\ InitReportFields

GetCroppedRegions ==
    /\ crop_widget # None
    /\ cropped' = get_cropped_regions
    /\ Called("get_cropped_regions")
    /\ UNCHANGED <<PDF_SUPPORT, window_vars, widget_vars, config_json, table_vars, report_vars>>

NextCrop == GetCroppedRegions

SpecCrop == InitCrop /\ [][NextCrop]_vars

(* The drawing session: on one image Regions are drawn, undone, cleared and *)
(* saved; no configuration is loaded.                                        *)

NextDraw ==
    \/ LoadImage
    \/ MousePress
    \/ MouseRelease
    \/ ClearLastRect
    \/ ClearAllRects
    \/ SaveConfig

SpecDraw == Init /\ [][NextDraw]_vars

(* The report session: the spreadsheet and an image are loaded (or fail to   *)
(* load), Regions are drawn and undone, and the report is requested.         *)

LoadExcel == load_excel
LoadReportImage == \E filename \in {"small.png", "corrupt.png"} : load_image(filename)
GeneratePpt == \E saved \in BOOLEAN : generate_ppt(saved)

InitReport == InitWindow /\ PDF_SUPPORT = TRUE

NextReport ==
    \/ LoadExcel
    \/ LoadReportImage
    \/ MousePress
    \/ MouseRelease
    \/ ClearLastRect
    \/ GeneratePpt

SpecReport == InitReport /\ [][NextReport]_vars

(* The loader: one spreadsheet out of the bounded set is on disk and         *)
(* load_excel reads it.                                                      *)

\* most rows of a sheet
MaxGridRows == 6

\* the rows a sheet is made of: a header row (the marker inside a longer
\* text), a score-label row, a student's row, an empty row, and a row whose
\* neighbouring cells hold the two characters of the score-label marker
GridRows ==
    { << Str(<<"kao", "sheng", "xing", "ming">>), Str(<<"zhu", "-", "1", "man", "fen">>) >>,
      << NaN, Str(<<"de", "fen">>) >>,
      << Str(<<"jia">>), Num(20) >>,
      << NaN, NaN >>,
      << Str(<<"de">>), Str(<<"fen">>) >> }

\* pandas' reader trims the empty rows at the end of a sheet
ExcelGrids ==
    { ExcelFile(FALSE, << >>) }
    \cup { ExcelFile(TRUE, rows) : rows \in
              { g \in SeqsUpTo(GridRows, MaxGridRows) :
                  g = << >> \/ g[Len(g)] # << NaN, NaN >> } }

InitExcel ==
    /\ InitImageFields
    /\ PDF_SUPPORT = TRUE
    /\ excel_grid \in ExcelGrids
    /\ df = None
    /\ InitReportFields

NextExcel == LoadExcel

SpecExcel == InitExcel /\ [][NextExcel]_vars

(* The classifier and scorer: analyze_questions runs on one frame out of the *)
(* bounded set, as load_excel leaves it (distinct labels, no empty row).     *)

\* most columns of a frame whose labels vary
MaxColumns == 3
\* most rows of a frame whose names and scores vary
MaxRows == 2
\* most rows of a frame of graded students
MaxRateRows == 4

\* column labels: name columns by marker, a column without marker, score
\* columns by marker or by a numeric name (as a text and as a number)
ColumnLabels ==
    { Str(<<"xing", "ming">>), Str(<<"N", "a", "m", "e">>), Str(<<"xue", "hao">>),
      Str(<<"zhu", "-", "1", "man", "fen">>), Str(<<"ke", "-", "1", "man", "fen">>),
      Str(<<"di", "1", "ti">>), Str(<<"1">>), Num(20) }

DistinctSeqs(S, n) ==
    { q \in SeqsUpTo(S, n) : \A i, j \in 1..Len(q) : i # j => q[i] # q[j] }

\* frames whose labels vary: no row, or one row holding the same cell in
\* every column
LabelFrames ==
    { DataFrame(cols, IF IsNa(c) THEN << >> ELSE << [j \in 1..Len(cols) |-> c] >>) :
        cols \in DistinctSeqs(ColumnLabels, MaxColumns) \ { << >> },
        c \in { NaN, Num(20), Num(0), Str(<<"A">>) } }

NameCells ==
    { NaN, Str(<<" ">>), Str(<<"xing", "ming">>), Str(<<"jia">>), Str(<<" ", "yi">>) }

ScoreCells ==
    { NaN, Num(0), Num(20), Num(-5), Str(<<"-">>), Str(<<" ">>), Str(<<"A">>),
      Str(<<"0">>), Str(<<" ", "2", ".", "5">>) }

ScoreLabels == << Str(<<"xing", "ming">>), Str(<<"zhu", "-", "1", "man", "fen">>) >>

\* frames whose names and scores vary
CellFrames ==
    { DataFrame(ScoreLabels, rows) :
        rows \in SeqsUpTo({ <<n, c>> : n \in NameCells, c \in ScoreCells } \ { <<NaN, NaN>> },
                          MaxRows) }

\* frames of graded students
RateFrames ==
    { DataFrame(ScoreLabels, rows) :
        rows \in SeqsUpTo({ <<Str(<<"jia">>), c>> : c \in { Num(0), Num(20), NaN } },
                          MaxRateRows) }

InitScore ==
    /\ InitImageFields
    /\ PDF_SUPPORT = TRUE
    /\ excel_grid = ReportGrid
    /\ df \in { <<frame>> : frame \in LabelFrames \cup CellFrames \cup RateFrames }
    /\ InitReportFields

AnalyzeQuestions ==
    /\ df # None
    /\ stats' = analyze_questions(df[1])
    /\ Called("analyze_questions")
    /\ UNCHANGED <<PDF_SUPPORT, window_vars, widget_vars, config_json, cropped,
                   table_vars, missing, ppt>>

NextScore == AnalyzeQuestions

SpecScore == InitScore /\ [][NextScore]_vars

-----------------------------------------------------------------------------
(* Properties *)

QNums(rects) == { rects[i].qnum : i \in DOMAIN rects }

\* the largest of a non-empty set of integers
MaxOf(S) == CHOOSE m \in S : \A n \in S : n <= m

\* x is the integer a JSON number h (in half units) truncates to
TruncatesTo(h, x) ==
    IF h >= 0 THEN 2 * x <= h /\ h < 2 * x + 2
    ELSE h <= 2 * x /\ 2 * x - 2 < h

\* C1: a load_regions_config that fails (load_config reports the failure)
\* leaves the Region list and the next-question-number counter as they were.
C1_FailedLoadLeavesStore ==
    [][ last_call' = "load_config:critical"
        => /\ rectangles' = rectangles
           /\ current_question_number' = current_question_number ]_vars

\* C2: in every reachable state the Regions of the store carry pairwise
\* distinct question numbers.
C2_DistinctQuestionNumbers ==
    \A i, j \in DOMAIN rectangles : i # j => rectangles[i].qnum # rectangles[j].qnum

\* C3 as claimed: saving a non-empty store and loading the saved file gives
\* back the same ordered Region list and the same counter.
C3_RoundTripKeepsCounter ==
    [][ ( /\ last_call = "save_config:information"
          /\ rectangles # << >>
          /\ load_config(config_json) )
        => /\ rectangles' = rectangles
           /\ current_question_number' = current_question_number ]_vars

\* C3 as amended: saving a non-empty store and loading the saved file gives
\* back the same ordered Region list; the counter afterwards is 1 + the
\* largest of 0 and the stored question numbers, so it is the counter of the
\* saved store exactly when that counter had this value.
C3_RoundTrip ==
    [][ ( /\ last_call = "save_config:information"
          /\ rectangles # << >>
          /\ load_config(config_json) )
        => /\ last_call' = "load_config:information"
           /\ rectangles' = rectangles
           /\ current_question_number' = 1 + MaxOf(QNums(rectangles) \cup {0}) ]_vars

\* a store read back from the file it was saved to, holding a Region that an
\* earlier load had put there
C3_Witness ==
    /\ last_call = "load_config:information"
    /\ config_json = JsonFile(TRUE, TRUE, ConfigOf(rectangles))
    /\ Len(rectangles) = 2
    /\ \E i \in DOMAIN rectangles : RectX(rectangles[i].rect) = 10

\* C4: a released rectangle is admitted iff its width > 10 and its height > 10;
\* on admission it is appended with the current counter value and the counter
\* grows by 1, on rejection list and counter are unchanged.
C4_RegionAppend ==
    [][ \A button \in Buttons, pos \in Points :
          ( mouseReleaseEvent(button, pos) /\ button = "LeftButton" /\ is_drawing )
          => LET rect == Normalized(QRectOfPoints(start_point, pos))
             IN IF RectWidth(rect) > 10 /\ RectHeight(rect) > 10
                THEN /\ rectangles' = rectangles \o
                                      << [rect |-> rect, qnum |-> current_question_number] >>
                     /\ current_question_number' = current_question_number + 1
                ELSE /\ rectangles' = rectangles
                     /\ current_question_number' = current_question_number ]_vars

\* a rectangle was rejected in a store that holds an admitted 11 x 11 Region
C4_Witness ==
    /\ last_call = "mouseReleaseEvent:rejected"
    /\ \E i \in DOMAIN rectangles :
         RectWidth(rectangles[i].rect) = 11 /\ RectHeight(rectangles[i].rect) = 11

\* C5: every Region of the store has a question number >= 1 and the counter
\* is >= 1, in every reachable state.
C5_PositiveQuestionNumbers ==
    /\ \A i \in DOMAIN rectangles : rectangles[i].qnum >= 1
    /\ current_question_number >= 1

\* C6: undo on a non-empty store removes exactly the last Region, keeps the
\* earlier ones in place and lowers the counter by 1; on an empty store it
\* changes neither.
C6_UndoIsLifo ==
    [][ last_call' = "clear_last_rect"
        => IF rectangles # << >>
           THEN /\ Len(rectangles') = Len(rectangles) - 1
                /\ \A i \in DOMAIN rectangles' : rectangles'[i] = rectangles[i]
                /\ current_question_number' = current_question_number - 1
           ELSE /\ rectangles' = rectangles
                /\ current_question_number' = current_question_number ]_vars

\* an undo has left the first of several Regions in the store
C6_Witness ==
    /\ last_call = "clear_last_rect"
    /\ Len(rectangles) >= 1

\* C7: clear_all leaves zero Regions and counter 1, and the Region admitted
\* next is numbered 1.
C7_ClearAll ==
    [][ /\ last_call' = "clear_all_rects:Yes"
           => rectangles' = << >> /\ current_question_number' = 1
        /\ ( last_call = "clear_all_rects:Yes"
             /\ last_call' = "mouseReleaseEvent:admitted" )
           => Len(rectangles') = 1 /\ rectangles'[1].qnum = 1 ]_vars

\* the store was cleared in a session in which Regions had been drawn and saved
C7_Witness ==
    /\ last_call = "clear_all_rects:Yes"
    /\ config_json.items # << >>
    /\ rectangles = << >>

\* the records of a file are held exactly: same numbers, same coordinates
HoldsExactly(rects, items) ==
    /\ Len(rects) = Len(items)
    /\ \A i \in DOMAIN items :
         /\ rects[i].qnum = items[i].question_number
         /\ 2 * RectX(rects[i].rect) = items[i].x
         /\ 2 * RectY(rects[i].rect) = items[i].y
         /\ 2 * RectWidth(rects[i].rect) = items[i].width
         /\ 2 * RectHeight(rects[i].rect) = items[i].height

\* the records of a file are held with their coordinates truncated to integers
HoldsTruncated(rects, items) ==
    /\ Len(rects) = Len(items)
    /\ \A i \in DOMAIN items :
         /\ rects[i].qnum = items[i].question_number
         /\ TruncatesTo(items[i].x, RectX(rects[i].rect))
         /\ TruncatesTo(items[i].y, RectY(rects[i].rect))
         /\ TruncatesTo(items[i].width, RectWidth(rects[i].rect))
         /\ TruncatesTo(items[i].height, RectHeight(rects[i].rect))

ItemQNums(items) == { items[i].question_number : i \in DOMAIN items }

\* C8 as claimed: after a successful load the store holds exactly the records
\* in order and the counter is max(question_number) + 1, or 1 for no records.
C8_LoadSetsMaxPlusOne ==
    [][ last_call' = "load_config:information"
        => /\ HoldsExactly(rectangles', last_file'.items)
           /\ current_question_number' =
                IF last_file'.items = << >> THEN 1
                ELSE MaxOf(ItemQNums(last_file'.items)) + 1 ]_vars

\* C8 as amended: after a successful load the store holds the records in
\* order, each coordinate converted to an integer by truncation, and the
\* counter is 1 + the largest of 0 and the question numbers of the records.
C8_LoadResult ==
    [][ last_call' = "load_config:information"
        => /\ HoldsTruncated(rectangles', last_file'.items)
           /\ current_question_number' = 1 + MaxOf(ItemQNums(last_file'.items) \cup {0}) ]_vars

\* a file listing question 3 before question 1 was loaded: the counter is 4
C8_Witness ==
    /\ last_call = "load_config:information"
    /\ Len(rectangles) = 2
    /\ rectangles[1].qnum = 3
    /\ rectangles[2].qnum = 1
    /\ current_question_number = 4

\* floor(v / scale) for scale = <<num, den>>
FloorToOriginal(v, scale) == (v * scale[2]) \div scale[1]

\* C9: each Region's crop box is (floor(x/s), floor(y/s), floor((x+width)/s),
\* floor((y+height)/s)); (100, 100, 50, 50) at s = 0.5 gives (200, 200, 300, 300).
C9_CropBox ==
    last_call = "get_cropped_regions"
    => \A i \in DOMAIN rectangles :
         LET r == rectangles[i].rect
         IN \E j \in DOMAIN cropped :
              /\ cropped[j].qnum = rectangles[i].qnum
              /\ cropped[j].box =
                   << FloorToOriginal(RectX(r), scale_factor),
                      FloorToOriginal(RectY(r), scale_factor),
                      FloorToOriginal(RectX(r) + RectWidth(r), scale_factor),
                      FloorToOriginal(RectY(r) + RectHeight(r), scale_factor) >>

\* C10: a successful image replacement (load_image or change_pdf_page) leaves
\* a widget for the new image with zero Regions, counter 1 and the scale
\* factor computed for the new raster.
C10_ReplacementResetsStore ==
    [][ last_call' \in {"load_image:information", "change_pdf_page:information"}
        => /\ crop_widget' = <<exam_image', is_pdf', current_pdf_page'>>
           /\ rectangles' = << >>
           /\ current_question_number' = 1
           /\ scale_factor' =
                InitScaleFactor(OriginalSize(exam_image', is_pdf', current_pdf_page')) ]_vars

\* the page was switched to the second PDF page in a session in which Regions
\* had been drawn and saved: none is left and the scale is that of the page
C10_Witness ==
    /\ last_call = "change_pdf_page:information"
    /\ config_json.items # << >>
    /\ current_pdf_page = 1
    /\ rectangles = << >>
    /\ scale_factor = <<800, 1200>>

\* C11: a load_image that fails (the file does not open or render, or it is
\* a PDF and PDF support is absent) leaves exam_image, is_pdf, the current PDF
\* page and the crop widget with its Region Store as they were.
C11_FailedLoadInstallsNothing ==
    [][ last_call' \in {"load_image:critical:no_pdf_support", "load_image:critical:load_failed"}
        => UNCHANGED <<exam_image, is_pdf, current_pdf_page, widget_vars>> ]_vars

\* an image is loaded when a widget holding its raster exists
ImageLoaded == crop_widget # None

\* the preconditions of report generation that do not hold
MissingPreconditions ==
    (IF df = None THEN {"excel"} ELSE {})
    \cup (IF ~ImageLoaded THEN {"image"} ELSE {})
    \cup (IF Len(rectangles) = 0 THEN {"regions"} ELSE {})

\* C12: when the table is not loaded, or no image is loaded, or the store
\* holds no Region, generate_ppt crops nothing, scores nothing, writes no
\* report and its list has exactly one entry for every missing precondition.
C12_RefusalListsAllMissing ==
    [][ ( (\E saved \in BOOLEAN : generate_ppt(saved)) /\ MissingPreconditions # {} )
        => /\ last_call' = "generate_ppt:warning"
           /\ UNCHANGED <<cropped, stats, ppt>>
           /\ { missing'[i] : i \in DOMAIN missing' } = MissingPreconditions
           /\ Len(missing') = Cardinality(MissingPreconditions) ]_vars

\* C13: get_cropped_regions returns one entry per stored Region, in ascending
\* question-number order whatever the store order, and leaves the store's
\* list and counter unchanged.
C13_CropOrder ==
    [][ last_call' = "get_cropped_regions"
        => /\ rectangles' = rectangles
           /\ current_question_number' = current_question_number
           /\ Len(cropped') = Len(rectangles)
           /\ \A i \in 1..(Len(cropped') - 1) : cropped'[i].qnum <= cropped'[i + 1].qnum
           /\ \E p \in Permutations(DOMAIN rectangles) :
                 \A i \in DOMAIN rectangles :
                    /\ cropped'[p[i]].qnum = rectangles[i].qnum
                    /\ cropped'[p[i]].box = CropBox(rectangles[i].rect, scale_factor) ]_vars

\* a store listing question 2 before question 1 was cropped: 1 comes first
C13_Witness ==
    /\ last_call = "get_cropped_regions"
    /\ Len(rectangles) = 2
    /\ rectangles[1].qnum = 2 /\ rectangles[2].qnum = 1
    /\ rectangles[1].rect # rectangles[2].rect
    /\ cropped[1].qnum = 1 /\ cropped[2].qnum = 2

Elems(q) == { q[i] : i \in DOMAIN q }

\* C14: classification gives every column exactly one role: the identity
\* column (by marker or by position) is in neither the objective nor the
\* subjective list and is not scored, and no column is in both lists.
C14_OneRolePerColumn ==
    last_call = "analyze_questions"
    => LET cols == df[1].columns
           identity == name_column(cols)
       IN /\ identity \notin Elems(subjective_columns(cols)) \cup Elems(objective_columns(cols))
          /\ Elems(subjective_columns(cols)) \cap Elems(objective_columns(cols)) = {}
          /\ \A i \in DOMAIN stats : stats[i].column_name # cols[identity]

\* the identity value of a row is present and is not a header word
Named(cell) ==
    /\ cell.t # "nan"
    /\ Strip(PyStr(cell)) # << >>
    /\ Strip(PyStr(cell)) \notin { <<"xing", "ming">>, <<"xue", "sheng">>,
                                   <<"n", "a", "m", "e">>, <<"N", "a", "m", "e">> }

\* the cells that hold a number, as a number or written as a text
IsNumberCell(cell) ==
    cell.t = "num" \/ cell \in { Str(<<"0">>), Str(<<" ", "2", ".", "5">>) }

\* the cells that hold the number 0
IsZeroCell(cell) == cell \in { Num(0), Str(<<"0">>) }

\* C15: the scored list is the subjective list when that is non-empty and
\* the list of all detected score columns otherwise; the statistics have
\* exactly the keys 1..n, key i holding the record of the i-th column of that
\* list, and a column without gradable cells has a record of zero counts.
C15_ScoredColumns ==
    last_call = "analyze_questions"
    => LET cols == df[1].columns
           chosen == IF subjective_columns(cols) # << >>
                     THEN subjective_columns(cols)
                     ELSE all_question_columns(cols)
       IN /\ DOMAIN stats = 1..Len(chosen)
          /\ \A i \in DOMAIN stats :
                /\ stats[i].column_name = cols[chosen[i]]
                /\ (\A r \in DOMAIN df[1].rows : ~IsNumberCell(df[1].rows[r][chosen[i]]))
                   => /\ stats[i].correct_count = 0
                      /\ stats[i].wrong_count = 0
                      /\ stats[i].wrong_students = << >>
                      /\ stats[i].correct_rate = <<0, 1>>

\* the only subjective column is the third column, behind an objective one:
\* it is question 1, and its cells (the letter A) give zero counts
C15_Witness ==
    /\ last_call = "analyze_questions"
    /\ Len(df[1].columns) = 3
    /\ objective_columns(df[1].columns) = <<2>>
    /\ DOMAIN stats = {1}
    /\ stats[1].column_name = df[1].columns[3]
    /\ df[1].rows = << [j \in 1..3 |-> Str(<<"A">>)] >>
    /\ stats[1].correct_count = 0

\* C16: in every scored column, over the rows whose identity value is
\* present and not a header word, each cell holding 0 adds the student's name
\* to wrong_students and 1 to wrong_count, each cell holding another number
\* adds 1 to correct_count and no name; the names are in table row order.
C16_ZeroScoreIsWrong ==
    last_call = "analyze_questions"
    => \A i \in DOMAIN stats :
         LET rows == df[1].rows
             identity == name_column(df[1].columns)
             col == score_columns(df[1].columns)[i]
             zero == SelectSeq([r \in 1..Len(rows) |-> r],
                               LAMBDA r : /\ Named(rows[r][identity])
                                          /\ IsZeroCell(rows[r][col]))
             nonzero == SelectSeq([r \in 1..Len(rows) |-> r],
                                  LAMBDA r : /\ Named(rows[r][identity])
                                             /\ IsNumberCell(rows[r][col])
                                             /\ ~IsZeroCell(rows[r][col]))
         IN /\ stats[i].wrong_count = Len(zero)
            /\ stats[i].correct_count = Len(nonzero)
            /\ stats[i].wrong_students =
                  [k \in 1..Len(zero) |-> Strip(PyStr(rows[zero[k]][identity]))]

\* two students scored 0, the second written as the text 0: both are listed,
\* in row order
C16_Witness ==
    /\ last_call = "analyze_questions"
    /\ Len(df[1].rows) = 2
    /\ df[1].rows[1][2] = Num(0)
    /\ df[1].rows[2][2] = Str(<<"0">>)
    /\ DOMAIN stats = {1}
    /\ stats[1].wrong_students = << <<"yi">>, <<"jia">> >>
    /\ stats[1].wrong_count = 2

MarkerRows ==
    { k \in 0..(Len(excel_grid.rows) - 1) :
        \E j \in DOMAIN excel_grid.rows[k + 1] :
           Contains(PyStr(excel_grid.rows[k + 1][j]), <<"xing", "ming">>) }

\* C19: when one of the first 5 rows of the sheet has a cell containing the
\* identity marker, the loader takes the first such row as the header (no
\* later one, none at index 5 or beyond); when none has, it takes the first
\* row as the header, the fallback.
C19_HeaderDetection ==
    last_call = "load_excel:information"
    => LET rows == excel_grid.rows
           inFirst5 == MarkerRows \cap 0..4
       IN IF inFirst5 # {}
          THEN LET k == CHOOSE m \in inFirst5 : \A n \in inFirst5 : m <= n
               IN /\ header_row = <<k>>
                  /\ df[1].columns = Labels(rows[k + 1])
          ELSE /\ header_row = None
               /\ rows # << >> => df[1].columns = Labels(rows[1])

\* the marker is in rows 2 and 3 of the sheet and in no earlier row: row 2 is
\* the header
C19_Witness ==
    /\ last_call = "load_excel:information"
    /\ MarkerRows \cap 0..3 = {2, 3}
    /\ header_row = <<2>>

\* the rows of q that have a cell
NonEmptyRows(q) == SelectSeq(q, LAMBDA row : \E j \in DOMAIN row : row[j].t # "nan")

\* a cell of the row contains the score-label marker
HasScoreLabel(row) ==
    \E j \in DOMAIN row : row[j].t = "str" /\ Contains(row[j].s, <<"de", "fen">>)

\* C20: when a header row was found and the first row after it contains the
\* score-label marker, the table holds the rows after that one (one row
\* fewer than the data rows, before empty rows are removed); no other row is
\* dropped for the marker; and the table never holds a row without a cell.
C20_ScoreLabelRowRemoved ==
    last_call = "load_excel:information"
    => /\ \A r \in DOMAIN df[1].rows : \E j \in DOMAIN df[1].rows[r] : df[1].rows[r][j].t # "nan"
       /\ header_row # None
          => LET data == SubSeq(excel_grid.rows, header_row[1] + 2, Len(excel_grid.rows))
             IN IF data # << >> /\ HasScoreLabel(data[1])
                THEN df[1].rows = NonEmptyRows(Tail(data))
                ELSE df[1].rows = NonEmptyRows(data)

\* the header is followed by two score-label rows and an empty row: the first
\* is dropped, the second is kept, the empty row is removed
C20_Witness ==
    /\ last_call = "load_excel:information"
    /\ header_row = <<1>>
    /\ Len(excel_grid.rows) = 6
    /\ HasScoreLabel(excel_grid.rows[3])
    /\ HasScoreLabel(excel_grid.rows[4])
    /\ excel_grid.rows[5] = << NaN, NaN >>
    /\ Len(df[1].rows) = 2
    /\ HasScoreLabel(df[1].rows[1])

\* C21: in every state reached by drawing, undoing and clearing only, the
\* Regions carry the question numbers 1, 2, ..., n in list order and the
\* counter is n + 1, n being the number of Regions.
C21_SequentialNumbers ==
    /\ \A i \in DOMAIN rectangles : rectangles[i].qnum = i
    /\ current_question_number = Len(rectangles) + 1

\* the second of two Regions was undone: Region 1 is left and the counter is 2
C21_Witness ==
    /\ last_call = "clear_last_rect"
    /\ Len(rectangles) = 1
    /\ rectangles[1].qnum = 1
    /\ current_question_number = 2

\* C22: in every record wrong_count is the length of wrong_students, and
\* correct_count + wrong_count is at most the number of rows whose identity
\* value is present and not a header word; row by row, such a row adds at
\* most 1 to the two counts together and any other row adds nothing.
C22_CountsBoundedByRows ==
    last_call = "analyze_questions"
    => \A i \in DOMAIN stats :
         LET rows == df[1].rows
             identity == name_column(df[1].columns)
             col == score_columns(df[1].columns)[i]
             upTo(k) == ScoreColumn(SubSeq(rows, 1, k), identity, col)
             total(k) == upTo(k).correct_count + upTo(k).wrong_count
         IN /\ stats[i].wrong_count = Len(stats[i].wrong_students)
            /\ stats[i].correct_count + stats[i].wrong_count
                 <= Cardinality({ r \in DOMAIN rows : Named(rows[r][identity]) })
            /\ stats[i].correct_count = upTo(Len(rows)).correct_count
            /\ stats[i].wrong_count = upTo(Len(rows)).wrong_count
            /\ \A k \in DOMAIN rows :
                  /\ total(k) - total(k - 1) \in {0, 1}
                  /\ ~Named(rows[k][identity]) => total(k) = total(k - 1)

\* a student scored 0 and a row without a name holds a score: one wrong
\* answer, one name, nothing counted for the nameless row
C22_Witness ==
    /\ last_call = "analyze_questions"
    /\ Len(df[1].rows) = 2
    /\ df[1].rows[1] = << Str(<<"jia">>), Num(0) >>
    /\ df[1].rows[2] = << NaN, Num(20) >>
    /\ DOMAIN stats = {1}
    /\ stats[1].wrong_students = << <<"jia">> >>
    /\ stats[1].wrong_count = 1
    /\ stats[1].correct_count = 0

=============================================================================
